---- MODULE Spec2Model ----
(***************************************************************************)
(* The lead-generation campaign orchestrator (SalesLeadGenerator) of       *)
(* examples/sales_lead_generator/src/lead_generator.py as a state machine. *)
(* Every public coroutine is split at the awaits where it really suspends  *)
(* (asyncio.sleep in the mock providers, aiofiles.open in the two save     *)
(* helpers); everything between two suspension points is one atomic step,  *)
(* as on a single asyncio event loop.  The LeadQualifier                   *)
(* (lead_qualifier.py) and the AnalyticsTracker (analytics_tracker.py) are *)
(* modelled as the functions they compute, used by the orchestrator and    *)
(* also called on their own.                                               *)
(***************************************************************************)
EXTENDS Integers, FiniteSets, Sequences, TLC

VARIABLES
    config,            \* LeadGenerationConfig: the three feature switches
    is_running,        \* SalesLeadGenerator.is_running
    campaign_metrics,  \* SalesLeadGenerator.campaign_metrics (None or CampaignMetrics)
    state_files,       \* data/<campaign_id>_state.json, per campaign id
    report_files,      \* data/<campaign_id>_final_report.json, per campaign id
    current_crm,       \* CRMIntegrator.current_crm is set
    auth_token,        \* CRMIntegrator.auth_token is set
    current_metrics,   \* AnalyticsTracker.current_metrics
    daily_metrics,     \* AnalyticsTracker.daily_metrics[today]: the bucket of the day
    historical_data,   \* AnalyticsTracker.historical_data: the 'prospects' of each entry
    pc,                \* per task: the await at which its coroutine is suspended
    ret,               \* the call that ended last and how it ended (returned or raised)
    qualified_leads,   \* per task: len(qualified_leads) of its cycle in flight
    state_data,        \* per task: the state_data dict of its _save_campaign_state
    final_report,      \* per task: the report dict of its stop_campaign
    stopped,           \* history: some stop_campaign ran to completion
    campaigns,         \* history: number of campaigns start_campaign created
    committed,         \* history: the metrics of the campaign at its start or at
                       \* the end of its last cycle that returned normally
    calls,             \* history: number of calls made so far
    before,            \* history: is_running and campaign_metrics as they
                       \* were when the last call was made
    leads,             \* the QualifiedLead objects a caller of the qualifier holds
    qcall,             \* the last call made on the LeadQualifier: its
                       \* arguments, what it computed, what it returned
    insights,          \* the last PredictiveInsights a caller of the
                       \* AnalyticsTracker was returned
    campaign_status    \* the last get_campaign_status: the state it read,
                       \* the call that had ended before it, what it returned

vars == <<config, is_running, campaign_metrics, state_files, report_files,
          current_crm, auth_token, current_metrics, daily_metrics,
          historical_data, pc, ret, qualified_leads, state_data, final_report,
          stopped, campaigns, committed, calls, before, leads, qcall, insights,
          campaign_status>>

\* the data the AnalyticsTracker keeps
analytics_vars == <<current_metrics, daily_metrics, historical_data>>

\* what the callers of the components hold and see
caller_vars == <<leads, qcall, insights, campaign_status>>


(* ------------------------------ bounds -------------------------------- *)

\* concurrent callers (asyncio tasks) sharing one orchestrator
NumTasks == 2
\* prospects one research stage can return
MaxProspects == 1
\* calls made on the orchestrator and its CRM integrator in one behaviour
MaxCalls == 4
\* leads in a list handed to the qualifier
MaxLeads == 2

Tasks == 1..NumTasks
CampaignIds == {"c1", "c2"}

(* ------------------------------- data --------------------------------- *)

None == [is_none |-> TRUE]

\* a float kept exact: numerator over denominator
Ratio(n, d) == <<n, d>>
Zero == Ratio(0, 1)

CampaignMetrics(campaign_id) ==
    [campaign_id          |-> campaign_id,
     prospects_researched |-> 0,
     leads_qualified      |-> 0,
     emails_sent          |-> 0,
     responses_received   |-> 0,
     meetings_booked      |-> 0,
     conversion_rate      |-> Zero]

\* update_conversion_rate that stores the share of prospects not qualified
update_conversion_rate_rejected(m) ==
    IF m.prospects_researched > 0
    THEN [m EXCEPT !.conversion_rate =
                       Ratio(m.prospects_researched - m.leads_qualified,
                             m.prospects_researched)]
    ELSE m

update_conversion_rate(m) ==
    IF m.prospects_researched > 0
    THEN [m EXCEPT !.conversion_rate =
                       Ratio(m.leads_qualified, m.prospects_researched)]
    ELSE m

PerformanceMetrics ==
    [total_prospects_researched |-> 0,
     prospects_qualified        |-> 0,
     qualification_rate         |-> Zero,
     emails_sent                |-> 0,
     email_responses            |-> 0,
     response_rate              |-> Zero,
     meetings_booked            |-> 0,
     conversion_rate            |-> Zero]

\* update_rates that divides whatever the denominator is
update_rates_unguarded(cm) ==
    [cm EXCEPT
        !.qualification_rate =
            Ratio(cm.prospects_qualified, cm.total_prospects_researched),
        !.response_rate = Ratio(cm.email_responses, cm.emails_sent),
        !.conversion_rate = Ratio(cm.meetings_booked, cm.prospects_qualified)]

\* PerformanceMetrics.update_rates: a rate is recomputed only when its
\* denominator is positive, otherwise it keeps the value it has
update_rates(cm) ==
    [cm EXCEPT
        !.qualification_rate =
            IF cm.total_prospects_researched > 0
            THEN Ratio(cm.prospects_qualified, cm.total_prospects_researched)
            ELSE @,
        !.response_rate =
            IF cm.emails_sent > 0
            THEN Ratio(cm.email_responses, cm.emails_sent)
            ELSE @,
        !.conversion_rate =
            IF cm.prospects_qualified > 0
            THEN Ratio(cm.meetings_booked, cm.prospects_qualified)
            ELSE @]

\* AnalyticsTracker.update_metrics: adds the campaign's counters as handed
\* over, then recomputes the rates
update_metrics(cm, m) ==
    update_rates(
        [cm EXCEPT !.total_prospects_researched = @ + m.prospects_researched,
                   !.prospects_qualified        = @ + m.leads_qualified,
                   !.emails_sent                = @ + m.emails_sent,
                   !.email_responses            = @ + m.responses_received,
                   !.meetings_booked            = @ + m.meetings_booked])

\* update_metrics, lines 154-165: the bucket of the day gets the same
\* counters added, without the meetings
update_daily_metrics(daily, m) ==
    update_rates(
        [daily EXCEPT !.total_prospects_researched = @ + m.prospects_researched,
                      !.prospects_qualified        = @ + m.leads_qualified,
                      !.emails_sent                = @ + m.emails_sent,
                      !.email_responses            = @ + m.responses_received])

\* update_metrics, lines 167-176: one more entry of historical data, of which
\* only the 'prospects' key is ever read
append_historical_data(h, m) == Append(h, m.prospects_researched)

\* the window generate_predictive_insights looks at
InsightsWindow == 7
\* below this many points no trend is computed
TrendPoints == 3
\* the slope beyond which the trend is 'up' (or, negated, 'down')
TrendSlope == 2
\* the confidence levels, in hundredths
DefaultConfidence == 50
ModelConfidence == 75
\* the rates, in thousandths, below which a risk factor is reported
LowQualificationRate == 100
LowResponseRate == 30

SumSeq(f, n) ==
    LET RECURSIVE Sum(_)
        Sum(i) == IF i = 0 THEN 0 ELSE f[i] + Sum(i - 1)
    IN  Sum(n)

\* r < thousandths / 1000, r a ratio with a positive denominator
RatioBelow(r, thousandths) == 1000 * r[1] < thousandths * r[2]

\* statistics.linear_regression(range(n), y)[0] compared with TrendSlope:
\* the slope is (n*Sxy - Sx*Sy) / (n*Sxx - Sx*Sx), x = 0 .. n-1
trend_direction(y) ==
    LET n   == Len(y)
        Sx  == SumSeq([i \in 1..n |-> i - 1], n)
        Sy  == SumSeq(y, n)
        Sxy == SumSeq([i \in 1..n |-> (i - 1) * y[i]], n)
        Sxx == SumSeq([i \in 1..n |-> (i - 1) * (i - 1)], n)
        num == n * Sxy - Sx * Sy
        den == n * Sxx - Sx * Sx
    IN  IF n >= TrendPoints
        THEN IF num > TrendSlope * den THEN "up"
             ELSE IF num < (0 - TrendSlope) * den THEN "down"
             ELSE "stable"
        ELSE "stable"

\* analytics_tracker.py 256-335: the PredictiveInsights returned for the
\* historical data h and the cumulative metrics cm
generate_predictive_insights(h, cm) ==
    LET recent_data == IF Len(h) >= InsightsWindow
                       THEN SubSeq(h, Len(h) - InsightsWindow + 1, Len(h))
                       ELSE h
        direction   == trend_direction(recent_data)
    IN  IF recent_data = <<>>
        THEN [next_day_prospects |-> 25,
              confidence_level   |-> DefaultConfidence,
              trend_direction    |-> "stable",
              risk_factors       |-> <<"Insufficient historical data">>]
        ELSE [next_day_prospects |->
                  SumSeq(recent_data, Len(recent_data)) \div Len(recent_data),
              confidence_level   |-> ModelConfidence,
              trend_direction    |-> direction,
              risk_factors       |->
                  (IF direction = "down"
                   THEN <<"Declining prospect quality">> ELSE <<>>)
                  \o (IF RatioBelow(cm.qualification_rate, LowQualificationRate)
                      THEN <<"Low qualification rate">> ELSE <<>>)
                  \o (IF RatioBelow(cm.response_rate, LowResponseRate)
                      THEN <<"Low email response rate">> ELSE <<>>)]

\* the dict _save_campaign_state builds before it opens the file
StateData(m, running) ==
    [campaign_metrics |-> m, is_running |-> running]

generate_final_report(m) ==
    [campaign_id         |-> m.campaign_id,
     final_metrics       |-> m,
     qualification_rate  |-> m.conversion_rate,
     email_response_rate |-> IF m.emails_sent > 0
                             THEN Ratio(m.responses_received, m.emails_sent)
                             ELSE Zero]

Configs ==
    [email_sequence_enabled : BOOLEAN,
     crm_integration        : BOOLEAN,
     analytics_enabled      : BOOLEAN]

Results ==
    {"ok", "already_running", "no_active_campaign", "crm_not_connected",
     "AttributeError", "OSError"}

NoCall == [op |-> "none", result |-> "none"]

(* ---------------------------- LeadQualifier --------------------------- *)

\* Scores are kept exact: a component score is a number of hundredths, a
\* weight is a number of hundredths, and an overall score (a sum of
\* products) is a number of ten-thousandths.

\* the weights with budget_alignment at 0.30
scoring_weights_heavy ==
    [company_fit          |-> 20,
     budget_alignment     |-> 30,
     authority_level      |-> 15,
     need_intensity       |-> 20,
     timing_urgency       |-> 10,
     engagement_potential |-> 10]

\* lead_qualifier.py 123-130
scoring_weights ==
    [company_fit          |-> 20,
     budget_alignment     |-> 25,
     authority_level      |-> 15,
     need_intensity       |-> 20,
     timing_urgency       |-> 10,
     engagement_potential |-> 10]

Criteria == DOMAIN scoring_weights

\* lead_qualifier.py 133-138, in ten-thousandths
qualification_thresholds ==
    [hot |-> 8500, warm |-> 7000, cool |-> 5500, cold |-> 0]

RECURSIVE SumOver(_, _)
SumOver(f, S) ==
    IF S = {} THEN 0
    ELSE LET x == CHOOSE y \in S : TRUE IN f[x] + SumOver(f, S \ {x})

\* lines 216-219: sum(score * weight) over the component scores
overall_score(component_scores) ==
    SumOver([c \in Criteria |-> component_scores[c] * scoring_weights[c]],
            Criteria)

\* _determine_qualification_level with the thresholds tested from the bottom
determine_qualification_level_bottom_up(score) ==
    IF score >= qualification_thresholds.cold THEN "cold"
    ELSE IF score >= qualification_thresholds.cool THEN "cool"
    ELSE IF score >= qualification_thresholds.warm THEN "warm"
    ELSE "hot"

\* lines 375-384
determine_qualification_level(score) ==
    IF score >= qualification_thresholds.hot THEN "hot"
    ELSE IF score >= qualification_thresholds.warm THEN "warm"
    ELSE IF score >= qualification_thresholds.cool THEN "cool"
    ELSE "cold"

(* ------------------------- the component scorers --------------------- *)

\* A component score is kept exact as a Ratio.  A prospect_data dict is a
\* record; a scorer reads only its own keys.

\* LeadGenerationConfig defaults (lead_generator.py 28-41)
target_industry == "technology"
company_size_minimum == 50
company_size_maximum == 1000
geographic_focus == {"United States"}

Min(a, b) == IF a <= b THEN a ELSE b

\* lines 235-259; the location is kept as the region it names
score_company_fit(prospect_data) ==
    LET industry == IF prospect_data.industry = target_industry
                    THEN 10 ELSE 0
        size     == IF company_size_minimum <= prospect_data.company_size
                       /\ prospect_data.company_size <= company_size_maximum
                    THEN 10
                    ELSE IF prospect_data.company_size < company_size_minimum
                         THEN 3 ELSE 0
        location == IF prospect_data.location \in geographic_focus
                    THEN 10 ELSE 0
    IN  Ratio(industry + size + location, 3 * 10)

\* _score_budget_alignment that rates the smallest revenue range at 0.2
score_budget_alignment_low(prospect_data) ==
    LET r == prospect_data.revenue_range
    IN  IF r \in {"$100M+", "$50M-$100M"} THEN Ratio(10, 10)
        ELSE IF r \in {"$25M-$50M", "$10M-$25M"} THEN Ratio(8, 10)
        ELSE IF r = "$5M-$10M" THEN Ratio(6, 10)
        ELSE IF r = "$1M-$5M" THEN Ratio(2, 10)
        ELSE Ratio(5, 10)

\* lines 261-275
score_budget_alignment(prospect_data) ==
    LET r == prospect_data.revenue_range
    IN  IF r \in {"$100M+", "$50M-$100M"} THEN Ratio(10, 10)
        ELSE IF r \in {"$25M-$50M", "$10M-$25M"} THEN Ratio(8, 10)
        ELSE IF r = "$5M-$10M" THEN Ratio(6, 10)
        ELSE IF r = "$1M-$5M" THEN Ratio(3, 10)
        ELSE Ratio(5, 10)

\* lines 288-298: the score of one contact's title, in tenths; a title is
\* kept as the first keyword class it falls in
title_score(title) ==
    IF title \in {"ceo", "chief", "president", "owner"} THEN 10
    ELSE IF title \in {"vp", "vice president", "director"} THEN 8
    ELSE IF title \in {"manager", "senior"} THEN 6
    ELSE IF title \in {"specialist", "analyst", "associate"} THEN 3
    ELSE 4

\* lines 277-300: the mean over the contacts, 0.2 without any
score_authority_level(prospect_data) ==
    LET contacts == prospect_data.key_contacts
    IN  IF contacts = <<>>
        THEN Ratio(2, 10)
        ELSE Ratio(SumSeq([i \in 1..Len(contacts) |->
                               title_score(contacts[i])], Len(contacts)),
                   10 * Len(contacts))

need_keywords ==
    {"expansion", "growth", "scaling", "challenge", "problem", "solution"}
urgency_keywords == {"urgent", "immediate", "deadline", "crisis", "problem"}

\* a news item is kept as the keyword it carries
Mentions(recent_news, keywords) ==
    \E i \in 1..Len(recent_news) : recent_news[i] \in keywords

\* _score_need_intensity without the cap of its last line
score_need_intensity_uncapped(prospect_data) ==
    Ratio(5 + (IF Mentions(prospect_data.recent_news, need_keywords)
               THEN 3 ELSE 0)
            + (IF prospect_data.company_size > 200 THEN 2 ELSE 0)
            + (IF prospect_data.technologies > 5 THEN 1 ELSE 0),
          10)

\* lines 302-325; technologies is the length of the list
score_need_intensity(prospect_data) ==
    Ratio(Min(5 + (IF Mentions(prospect_data.recent_news, need_keywords)
                   THEN 3 ELSE 0)
                + (IF prospect_data.company_size > 200 THEN 2 ELSE 0)
                + (IF prospect_data.technologies > 5 THEN 1 ELSE 0),
              10),
          10)

\* lines 327-348
score_timing_urgency(prospect_data) ==
    Ratio(Min(5 + (IF prospect_data.company_size > 500 THEN 2
                   ELSE IF prospect_data.company_size < 100 THEN 1 ELSE 0)
                + (IF Mentions(prospect_data.recent_news, urgency_keywords)
                   THEN 2 ELSE 0),
              10),
          10)

\* lines 350-373; social_profiles is the size of the dict, description the
\* length of the text
score_engagement_potential(prospect_data) ==
    Ratio(Min(5 + (IF prospect_data.social_profiles > 0
                   THEN 2 + (IF prospect_data.social_profiles > 2
                             THEN 1 ELSE 0)
                   ELSE 0)
                + (IF prospect_data.website = "https://" THEN 1 ELSE 0)
                + (IF prospect_data.description > 100 THEN 1 ELSE 0),
              10),
          10)

\* lines 444-462: the factors in the order they are appended
identify_disqualifying_factors(component_scores, prospect_data) ==
    (IF RatioBelow(component_scores.budget_alignment, 300)
     THEN <<"Insufficient budget capacity">> ELSE <<>>)
    \o (IF RatioBelow(component_scores.company_fit, 300)
        THEN <<"Company profile doesn't match">> ELSE <<>>)
    \o (IF RatioBelow(component_scores.authority_level, 200)
        THEN <<"Unable to identify decision-making contacts">> ELSE <<>>)
    \o (IF prospect_data.company_size < company_size_minimum
        THEN <<"Company size below minimum threshold">> ELSE <<>>)

\* the values of the keys of a prospect_data dict
Industries == {"technology", "retail"}
CompanySizes == {30, 80, 150, 300, 600, 2000}
Locations == {"United States", "Germany"}
RevenueRanges ==
    {"$100M+", "$50M-$100M", "$25M-$50M", "$10M-$25M", "$5M-$10M", "$1M-$5M",
     ""}
Titles == {"ceo", "director", "manager", "analyst", "engineer"}
MaxContacts == 2
ContactLists == UNION {[1..k -> Titles] : k \in 0..MaxContacts}
NewsLists == {<<>>, <<"award">>, <<"expansion">>, <<"urgent">>, <<"problem">>,
              <<"award", "growth">>}
TechnologyCounts == {0, 5, 6}
SocialProfileCounts == {0, 1, 3}
Websites == {"", "http://", "https://"}
DescriptionLengths == {0, 100, 101}

\* what a call that raised TypeError leaves in place of a value
TypeError == [raised |-> "TypeError"]

\* the __init__ a dataclass generates: every field without a default must be
\* passed, or the call raises TypeError before any object exists
dataclass_init(required, passed, object) ==
    IF required \subseteq passed THEN object ELSE TypeError

\* lines 40-49: no field of LeadScore has a default
LeadScoreRequired ==
    {"overall_score", "qualification_level", "component_scores",
     "scoring_breakdown", "recommendations", "next_steps",
     "disqualifying_factors", "scored_at"}

\* lines 225-233: the keywords _score_lead passes
ScoreLeadPasses ==
    {"overall_score", "qualification_level", "component_scores",
     "scoring_breakdown", "recommendations", "next_steps",
     "disqualifying_factors"}

LeadScore(score, level, factors) ==
    [overall_score         |-> score,
     qualification_level   |-> level,
     disqualifying_factors |-> factors]

\* line 223: the factors of a prospect, from its component scores (kept in
\* hundredths) and its company size
disqualifying_factors(prospect) ==
    identify_disqualifying_factors(
        [budget_alignment |-> Ratio(prospect.budget_alignment, 100),
         company_fit      |-> Ratio(prospect.company_fit, 100),
         authority_level  |-> Ratio(prospect.authority_level, 100)],
        prospect)

\* lines 189-233: a prospect is kept as the six component scores the scorers
\* of lines 198-213 give it, and its company size
score_lead(prospect) ==
    LET score == overall_score(prospect) IN
    dataclass_init(LeadScoreRequired, ScoreLeadPasses,
                   LeadScore(score, determine_qualification_level(score),
                             disqualifying_factors(prospect)))

\* lines 64-72: the fields of QualifiedLead without a default
QualifiedLeadRequired ==
    {"prospect_data", "lead_score", "qualification_date", "priority_rank"}

\* lines 165-172: the keywords qualify_leads passes
QualifyLeadsPasses ==
    {"prospect_data", "lead_score", "priority_rank", "estimated_value",
     "conversion_probability", "recommended_approach"}

QualifiedLead(lead_score, priority_rank) ==
    [lead_score |-> lead_score, priority_rank |-> priority_rank]

\* list.sort(key = overall_score, reverse = True): stable, equal scores keep
\* their order
RECURSIVE sort_by_score(_)
sort_by_score(list) ==
    IF list = <<>> THEN <<>>
    ELSE LET rest == sort_by_score(Tail(list))
             x    == Head(list)
             \* x goes in front of the first element scoring no higher
             ahead == {i \in 1..Len(rest) :
                          \A j \in 1..i : rest[j].lead_score.overall_score
                                             > x.lead_score.overall_score}
             k    == Cardinality(ahead)
         IN SubSeq(rest, 1, k) \o <<x>> \o SubSeq(rest, k + 1, Len(rest))

\* lines 182-184 and 525-527: sort, then number the leads from 1
sort_and_rank(list) ==
    LET sorted == sort_by_score(list) IN
    [i \in 1..Len(sorted) |-> [sorted[i] EXCEPT !.priority_rank = i]]

\* lines 154-179: the loop body for one prospect; an exception anywhere in
\* it is logged and the prospect is skipped
RECURSIVE qualify_each(_)
qualify_each(prospects) ==
    IF prospects = <<>> THEN <<>>
    ELSE LET lead_score == score_lead(Head(prospects))
             rest       == qualify_each(Tail(prospects))
         IN IF lead_score = TypeError THEN rest
            ELSE IF determine_qualification_level(lead_score.overall_score)
                       \notin {"hot", "warm"}
            THEN rest
            ELSE LET lead == dataclass_init(QualifiedLeadRequired,
                                            QualifyLeadsPasses,
                                            QualifiedLead(lead_score, 0))
                 IN IF lead = TypeError THEN rest ELSE <<lead>> \o rest

\* qualify_leads whose constructors succeed and which returns the leads in
\* the order of the prospects, not ranked
qualify_leads_unranked(prospects) ==
    LET kept == SelectSeq(prospects,
                    LAMBDA p : determine_qualification_level(overall_score(p))
                                  \in {"hot", "warm"})
    IN [i \in 1..Len(kept) |->
           QualifiedLead(LeadScore(overall_score(kept[i]),
                                   determine_qualification_level(
                                       overall_score(kept[i])),
                                   disqualifying_factors(kept[i])), 0)]

\* qualify_leads whose constructors succeed and which keeps a prospect of
\* any level
qualify_leads_unfiltered(prospects) ==
    sort_and_rank([i \in 1..Len(prospects) |->
                      QualifiedLead(LeadScore(overall_score(prospects[i]),
                                              determine_qualification_level(
                                                  overall_score(prospects[i])),
                                              disqualifying_factors(
                                                  prospects[i])),
                                    0)])

\* qualify_leads whose two constructors succeed
qualify_leads_constructed(prospects) ==
    LET kept == SelectSeq(prospects,
                    LAMBDA p : determine_qualification_level(overall_score(p))
                                  \in {"hot", "warm"})
    IN sort_and_rank(
           [i \in 1..Len(kept) |->
               QualifiedLead(LeadScore(overall_score(kept[i]),
                                       determine_qualification_level(
                                           overall_score(kept[i])),
                                       disqualifying_factors(kept[i])), 0)])

\* lines 140-187
qualify_leads(prospects) == sort_and_rank(qualify_each(prospects))

\* lines 507-518: the score moves by 0.05 at every call, down below 0.8 and
\* up from 0.8 on, clamped to [0, 1]; the level follows the new score
re_score(lead) ==
    LET score == lead.lead_score.overall_score
        score_adjustment == (500 - 1000) * (IF score < 8000 THEN 1 ELSE -1)
        raw == score + score_adjustment
        new_overall_score ==
            IF raw < 0 THEN 0 ELSE IF raw > 10000 THEN 10000 ELSE raw
    IN [lead EXCEPT
           !.lead_score.overall_score = new_overall_score,
           !.lead_score.qualification_level =
               determine_qualification_level(new_overall_score)]

\* lines 493-530
re_score_leads(lead_list) ==
    sort_and_rank([i \in 1..Len(lead_list) |-> re_score(lead_list[i])])

ComponentScores(fit, budget, authority, need, timing, engagement) ==
    [company_fit          |-> fit,
     budget_alignment     |-> budget,
     authority_level      |-> authority,
     need_intensity       |-> need,
     timing_urgency       |-> timing,
     engagement_potential |-> engagement]

\* a prospect: its company size and its six component scores
ProspectData(company_size, component_scores) ==
    [c \in Criteria \cup {"company_size"} |->
        IF c = "company_size" THEN company_size ELSE component_scores[c]]

\* Prospects as the scorers of lines 235-373 score them.
\* Target industry and region, 600 employees, revenue "$100M+", a CEO as
\* contact, news of an urgent growth problem, six technologies, three social
\* profiles, an https website, a long description:
HotProspect == ProspectData(600, ComponentScores(100, 100, 100, 100, 90, 100))
\* target industry and region, 300 employees, "$10M-$25M", a VP as contact:
WarmProspect == ProspectData(300, ComponentScores(100, 80, 80, 70, 50, 50))
\* target industry and region, 150 employees, revenue unknown, a manager:
CoolProspect == ProspectData(150, ComponentScores(100, 50, 60, 50, 50, 50))
\* another industry and region, 2000 employees, "$1M-$5M", no contact:
ColdProspect == ProspectData(2000, ComponentScores(0, 30, 20, 70, 70, 50))
\* another industry and region, 2000 employees, and everything else as the
\* first: scored 0.79, with company_fit 0.0
MisfitProspect ==
    ProspectData(2000, ComponentScores(0, 100, 100, 100, 90, 100))

\* prospects handed to the qualifier
Candidates ==
    {HotProspect, WarmProspect, CoolProspect, ColdProspect, MisfitProspect}

\* lists of at most n prospects
ProspectLists(n) == UNION {[1..k -> Candidates] : k \in 0..n}

(* ------------------------------- Init --------------------------------- *)

\* SalesLeadGenerator.__init__: the fields of a new orchestrator and of the
\* components it builds
Constructed ==
    /\ is_running = FALSE
    /\ campaign_metrics = None
    /\ state_files = [c \in CampaignIds |-> None]
    /\ report_files = [c \in CampaignIds |-> None]
    /\ current_crm = FALSE
    /\ auth_token = FALSE
    /\ current_metrics = PerformanceMetrics
    /\ daily_metrics = PerformanceMetrics
    /\ historical_data = <<>>
    /\ pc = [t \in Tasks |-> "idle"]
    /\ ret = NoCall
    /\ qualified_leads = [t \in Tasks |-> 0]
    /\ state_data = [t \in Tasks |-> None]
    /\ final_report = [t \in Tasks |-> None]
    /\ stopped = FALSE
    /\ campaigns = 0
    /\ committed = None
    /\ calls = 0
    /\ before = None

Init ==
    /\ config \in Configs
    /\ Constructed
    /\ leads = <<>>
    /\ qcall = NoCall
    /\ insights = NoCall
    /\ campaign_status = NoCall

(* ------------------------- call bookkeeping --------------------------- *)

\* task t, not inside a call, makes its next call
BeginCall(t) ==
    /\ pc[t] = "idle"
    /\ calls < MaxCalls
    /\ calls' = calls + 1
    /\ before' = [is_running |-> is_running,
                  campaign_metrics |-> campaign_metrics]

Call(op, result) == [op |-> op, result |-> result]

\* the coroutine of task t returns or raises: back to the caller
Return(t, op, result) ==
    /\ pc' = [pc EXCEPT ![t] = "idle"]
    /\ ret' = Call(op, result)

\* the coroutine of task t suspends at the await named by label
Suspend(t, label) ==
    /\ pc' = [pc EXCEPT ![t] = label]
    /\ ret' = ret

(* ----------------------- _save_campaign_state ------------------------- *)

\* lines 312-322: nothing to save without metrics; otherwise the state_data
\* dict is built from the fields as they are now, and the coroutine suspends
\* in aiofiles.open
save_campaign_state(t, op, label, m, running) ==
    IF m = None
    THEN /\ Return(t, op, "ok")
         /\ state_data' = [state_data EXCEPT ![t] = None]
    ELSE /\ Suspend(t, label)
         /\ state_data' = [state_data EXCEPT ![t] = StateData(m, running)]

\* lines 324-325: the file named after the campaign id receives state_data,
\* or the open/write fails and the file keeps its content
write_state_file(t, ok) ==
    state_files' =
        IF ok
        THEN [state_files EXCEPT
                 ![state_data[t].campaign_metrics.campaign_id] = state_data[t]]
        ELSE state_files

\* the tail of start/pause/resume after their awaited save
lifecycle_saved(t, op, label) ==
    /\ pc[t] = label
    /\ \E failed \in BOOLEAN :
          /\ write_state_file(t, ~failed)
          /\ Return(t, op, IF failed THEN "OSError" ELSE "ok")
    /\ state_data' = [state_data EXCEPT ![t] = None]
    /\ UNCHANGED <<config, is_running, campaign_metrics, report_files,
                   current_crm, auth_token, analytics_vars, qualified_leads,
                   final_report, stopped, campaigns, committed, calls, before>>

(* --------------------------- start_campaign --------------------------- *)

start_campaign(t, campaign_id) ==
    /\ BeginCall(t)
    /\ IF is_running
       THEN /\ Return(t, "start_campaign", "already_running")
            /\ UNCHANGED <<is_running, campaign_metrics, state_data, committed,
                           campaigns>>
       ELSE /\ campaign_metrics' = CampaignMetrics(campaign_id)
            /\ is_running' = TRUE
            /\ campaigns' = campaigns + 1
            /\ committed' = campaign_metrics'
            /\ save_campaign_state(t, "start_campaign", "start_save",
                                   campaign_metrics', is_running')
    /\ UNCHANGED <<config, state_files, report_files, current_crm, auth_token,
                   analytics_vars, qualified_leads, final_report, stopped>>

start_campaign_saved(t) ==
    lifecycle_saved(t, "start_campaign", "start_save")

(* ---------------------- pause / resume campaign ----------------------- *)

\* pause_campaign that clears the flag and returns without saving
pause_campaign_unsaved(t) ==
    /\ BeginCall(t)
    /\ is_running' = FALSE
    /\ Return(t, "pause_campaign", "ok")
    /\ UNCHANGED <<config, campaign_metrics, state_files, report_files,
                   current_crm, auth_token, analytics_vars, qualified_leads,
                   state_data, final_report, stopped, campaigns, committed>>

pause_campaign(t) ==
    /\ BeginCall(t)
    /\ IF ~is_running
       THEN /\ Return(t, "pause_campaign", "ok")
            /\ UNCHANGED <<is_running, state_data>>
       ELSE /\ is_running' = FALSE
            /\ save_campaign_state(t, "pause_campaign", "pause_save",
                                   campaign_metrics, is_running')
    /\ UNCHANGED <<config, campaign_metrics, state_files, report_files,
                   current_crm, auth_token, analytics_vars, qualified_leads,
                   final_report, stopped, campaigns, committed>>

pause_campaign_saved(t) ==
    lifecycle_saved(t, "pause_campaign", "pause_save")

resume_campaign(t) ==
    /\ BeginCall(t)
    /\ IF is_running
       THEN /\ Return(t, "resume_campaign", "ok")
            /\ UNCHANGED <<is_running, state_data>>
       ELSE /\ is_running' = TRUE
            /\ save_campaign_state(t, "resume_campaign", "resume_save",
                                   campaign_metrics, is_running')
    /\ UNCHANGED <<config, campaign_metrics, state_files, report_files,
                   current_crm, auth_token, analytics_vars, qualified_leads,
                   final_report, stopped, campaigns, committed>>

resume_campaign_saved(t) ==
    lifecycle_saved(t, "resume_campaign", "resume_save")

(* ---------------------------- stop_campaign --------------------------- *)

\* lines 297-305: the flag is cleared first; the log line and the report read
\* campaign_metrics; _save_final_report suspends in aiofiles.open
stop_campaign(t) ==
    /\ BeginCall(t)
    /\ IF ~is_running
       THEN /\ Return(t, "stop_campaign", "ok")
            /\ UNCHANGED <<is_running, final_report>>
       ELSE /\ is_running' = FALSE
            /\ IF campaign_metrics = None
               THEN /\ Return(t, "stop_campaign", "AttributeError")
                    /\ UNCHANGED final_report
               ELSE /\ Suspend(t, "stop_save")
                    /\ final_report' =
                          [final_report EXCEPT
                              ![t] = generate_final_report(campaign_metrics)]
    /\ UNCHANGED <<config, campaign_metrics, state_files, report_files,
                   current_crm, auth_token, analytics_vars, qualified_leads,
                   state_data, stopped, campaigns, committed>>

\* lines 361-369 and 308: the report file is written, then the metrics are
\* dropped; a failed write raises before the cleanup line is reached
stop_campaign_saved(t) ==
    /\ pc[t] = "stop_save"
    /\ \E failed \in BOOLEAN :
          IF ~failed
          THEN /\ report_files' =
                     [report_files EXCEPT
                         ![final_report[t].campaign_id] = final_report[t]]
               /\ campaign_metrics' = None
               /\ stopped' = TRUE
               /\ Return(t, "stop_campaign", "ok")
          ELSE /\ Return(t, "stop_campaign", "OSError")
               /\ UNCHANGED <<report_files, campaign_metrics, stopped>>
    /\ final_report' = [final_report EXCEPT ![t] = None]
    /\ UNCHANGED <<config, is_running, state_files, current_crm, auth_token,
                   analytics_vars, qualified_leads, state_data, committed,
                   campaigns, calls,
                   before>>

(* --------------------------- run_daily_cycle -------------------------- *)

\* what a step of run_daily_cycle leaves alone whatever path it takes
CycleFrame ==
    UNCHANGED <<config, is_running, state_files, report_files, current_crm,
                auth_token, final_report, stopped, campaigns, committed>>

\* lines 246-248: the except clause logs and re-raises; the metrics stay as
\* the completed stages left them
cycle_raise(t, m, result) ==
    /\ campaign_metrics' = m
    /\ Return(t, "run_daily_cycle", result)
    /\ qualified_leads' = [qualified_leads EXCEPT ![t] = 0]
    /\ UNCHANGED <<analytics_vars, state_data>>

\* the cycle suspends inside a provider call, its metrics written so far
cycle_await(t, m, label, k) ==
    /\ campaign_metrics' = m
    /\ Suspend(t, label)
    /\ qualified_leads' = [qualified_leads EXCEPT ![t] = k]
    /\ UNCHANGED <<analytics_vars, state_data>>

\* run_daily_cycle with the analytics update moved in front of the research
\* stage: the aggregator is handed the metrics the cycle began with
cycle_finish_analytics_first(t, m) ==
    /\ current_metrics' = IF config.analytics_enabled
                          THEN update_metrics(current_metrics, campaign_metrics)
                          ELSE current_metrics
    /\ daily_metrics' = IF config.analytics_enabled
                        THEN update_daily_metrics(daily_metrics,
                                                  campaign_metrics)
                        ELSE daily_metrics
    /\ historical_data' = IF config.analytics_enabled
                          THEN append_historical_data(historical_data,
                                                      campaign_metrics)
                          ELSE historical_data
    /\ campaign_metrics' = update_conversion_rate(m)
    /\ save_campaign_state(t, "run_daily_cycle", "cycle_save",
                           campaign_metrics', is_running)
    /\ qualified_leads' = [qualified_leads EXCEPT ![t] = 0]

\* lines 223-231: analytics (which swallows its own errors), the conversion
\* rate, then _save_campaign_state up to its aiofiles.open
cycle_finish(t, m) ==
    IF m = None
    THEN cycle_raise(t, m, "AttributeError")
    ELSE /\ current_metrics' = IF config.analytics_enabled
                               THEN update_metrics(current_metrics, m)
                               ELSE current_metrics
         /\ daily_metrics' = IF config.analytics_enabled
                             THEN update_daily_metrics(daily_metrics, m)
                             ELSE daily_metrics
         /\ historical_data' = IF config.analytics_enabled
                               THEN append_historical_data(historical_data, m)
                               ELSE historical_data
         /\ campaign_metrics' = update_conversion_rate(m)
         /\ save_campaign_state(t, "run_daily_cycle", "cycle_save",
                                campaign_metrics', is_running)
         /\ qualified_leads' = [qualified_leads EXCEPT ![t] = 0]

\* lines 219-221: sync_leads raises at once unless the CRM is connected
\* (crm_integrator.py 151-152), otherwise it suspends per lead
cycle_crm(t, m, k) ==
    IF config.crm_integration /\ k > 0
    THEN IF ~current_crm \/ ~auth_token
         THEN cycle_raise(t, m, "crm_not_connected")
         ELSE cycle_await(t, m, "cycle_crm", k)
    ELSE cycle_finish(t, m)

\* lines 213-215: send_sequences suspends per lead
cycle_email(t, m, k) ==
    IF config.email_sequence_enabled /\ k > 0
    THEN cycle_await(t, m, "cycle_email", k)
    ELSE cycle_crm(t, m, k)

\* run_daily_cycle with the guard reduced to "if not self.is_running"
run_daily_cycle_flag_only(t) ==
    /\ BeginCall(t)
    /\ IF ~is_running
       THEN Return(t, "run_daily_cycle", "no_active_campaign")
       ELSE Suspend(t, "cycle_research")
    /\ UNCHANGED <<campaign_metrics, analytics_vars, qualified_leads,
                   state_data>>
    /\ CycleFrame

\* lines 197-206: the guard, then research_prospects suspends
run_daily_cycle(t) ==
    /\ BeginCall(t)
    /\ IF ~is_running \/ campaign_metrics = None
       THEN Return(t, "run_daily_cycle", "no_active_campaign")
       ELSE Suspend(t, "cycle_research")
    /\ UNCHANGED <<campaign_metrics, analytics_vars, qualified_leads,
                   state_data>>
    /\ CycleFrame

\* lines 207-211: research returned a list of prospects, which qualify_leads
\* (no await inside) turns into the qualified leads; both counters are read
\* through self.campaign_metrics
run_daily_cycle_researched(t) ==
    /\ pc[t] = "cycle_research"
    /\ \E prospects \in ProspectLists(MaxProspects) :
          LET leads_found == qualify_leads(prospects) IN
          IF campaign_metrics = None
          THEN cycle_raise(t, None, "AttributeError")
          ELSE cycle_email(t,
                  [campaign_metrics EXCEPT
                      !.prospects_researched = @ + Len(prospects),
                      !.leads_qualified = @ + Len(leads_found)],
                  Len(leads_found))
    /\ UNCHANGED <<calls, before>>
    /\ CycleFrame

\* lines 216-217: send_sequences reports sent <= len(leads) and responses = 0
\* (email_automation.py 338-371).  The stage is entered on a non-empty list
\* of qualified leads only, which qualify_leads never returns: no behaviour
\* reaches this await or the one of the CRM stage.
run_daily_cycle_emailed(t) ==
    /\ pc[t] = "cycle_email"
    /\ \E sent \in 0..qualified_leads[t] :
          IF campaign_metrics = None
          THEN cycle_raise(t, None, "AttributeError")
          ELSE cycle_crm(t,
                  [campaign_metrics EXCEPT
                      !.emails_sent = @ + sent,
                      !.responses_received = @ + 0],
                  qualified_leads[t])
    /\ UNCHANGED <<calls, before>>
    /\ CycleFrame

\* line 221 returns: sync_leads counts its own failures and does not raise
run_daily_cycle_synced(t) ==
    /\ pc[t] = "cycle_crm"
    /\ cycle_finish(t, campaign_metrics)
    /\ UNCHANGED <<calls, before>>
    /\ CycleFrame

\* run_daily_cycle whose except clause puts the metrics back to what they
\* were when the cycle began
run_daily_cycle_saved_rollback(t) ==
    /\ pc[t] = "cycle_save"
    /\ \E failed \in BOOLEAN :
          /\ write_state_file(t, ~failed)
          /\ Return(t, "run_daily_cycle", IF failed THEN "OSError" ELSE "ok")
          /\ campaign_metrics' = IF failed THEN committed ELSE campaign_metrics
    /\ committed' = IF ret'.result = "ok"
                    THEN state_data[t].campaign_metrics
                    ELSE committed
    /\ state_data' = [state_data EXCEPT ![t] = None]
    /\ UNCHANGED <<config, is_running, report_files,
                   current_crm, auth_token, analytics_vars, qualified_leads,
                   final_report, stopped, campaigns, calls, before>>

\* lines 231-248: the awaited write, then the results dict, which reads
\* self.campaign_metrics again; an exception is logged and re-raised with
\* the metrics as the stages left them
run_daily_cycle_saved(t) ==
    /\ pc[t] = "cycle_save"
    /\ \E failed \in BOOLEAN :
          /\ write_state_file(t, ~failed)
          /\ Return(t, "run_daily_cycle",
                    IF failed THEN "OSError"
                    ELSE IF campaign_metrics = None THEN "AttributeError"
                    ELSE "ok")
    /\ committed' = IF ret'.result = "ok"
                    THEN state_data[t].campaign_metrics
                    ELSE committed
    /\ state_data' = [state_data EXCEPT ![t] = None]
    /\ UNCHANGED <<config, is_running, campaign_metrics, report_files,
                   current_crm, auth_token, analytics_vars, qualified_leads,
                   final_report, stopped, campaigns, calls, before>>

(* ---------------------------- CRMIntegrator --------------------------- *)

CrmFrame ==
    UNCHANGED <<config, is_running, campaign_metrics, state_files,
                report_files, analytics_vars, qualified_leads, state_data,
                final_report, stopped, campaigns, committed>>

\* crm_integrator.py 120-129: current_crm is set, then the coroutine sleeps
connect_crm(t) ==
    /\ BeginCall(t)
    /\ config.crm_integration
    /\ current_crm' = TRUE
    /\ Suspend(t, "connect_auth")
    /\ UNCHANGED auth_token
    /\ CrmFrame

\* crm_integrator.py 131-135: the token is stored
connect_crm_authenticated(t) ==
    /\ pc[t] = "connect_auth"
    /\ auth_token' = TRUE
    /\ Return(t, "connect_crm", "ok")
    /\ UNCHANGED <<current_crm, calls, before>>
    /\ CrmFrame

\* crm_integrator.py 483-488
disconnect(t) ==
    /\ BeginCall(t)
    /\ config.crm_integration
    /\ IF current_crm
       THEN current_crm' = FALSE /\ auth_token' = FALSE
       ELSE UNCHANGED <<current_crm, auth_token>>
    /\ Return(t, "disconnect", "ok")
    /\ CrmFrame

(* -------------------------- get_campaign_status ----------------------- *)

\* lines 257-273: the status dict, of which the model keeps the two keys
\* that tell the lifecycle state
status_dict(m, running) ==
    IF m = None
    THEN [status |-> "no_active_campaign"]
    ELSE [campaign_id |-> m.campaign_id,
          status      |-> IF running THEN "running" ELSE "paused"]

\* lines 250-275: get_campaign_status reads the two fields and returns; it
\* has no await in it
get_campaign_status(t) ==
    /\ BeginCall(t)
    /\ Return(t, "get_campaign_status", "ok")
    /\ campaign_status' = [op               |-> "get_campaign_status",
                           previous         |-> ret,
                           is_running       |-> is_running,
                           campaign_metrics |-> campaign_metrics,
                           stopped          |-> stopped,
                           result           |-> status_dict(campaign_metrics,
                                                            is_running)]
    /\ UNCHANGED <<config, is_running, campaign_metrics, state_files,
                   report_files, current_crm, auth_token, analytics_vars,
                   qualified_leads, state_data, final_report, stopped, campaigns,
                   committed>>

(* ------------------------------ behaviours ---------------------------- *)

\* no other caller has a coroutine in flight
OthersIdle(t) == \A u \in Tasks \ {t} : pc[u] = "idle"

Next ==
    \E t \in Tasks :
        \/ \E c \in CampaignIds : start_campaign(t, c) /\ UNCHANGED caller_vars
        \/ start_campaign_saved(t) /\ UNCHANGED caller_vars
        \/ pause_campaign(t) /\ UNCHANGED caller_vars
        \/ pause_campaign_saved(t) /\ UNCHANGED caller_vars
        \/ resume_campaign(t) /\ UNCHANGED caller_vars
        \/ resume_campaign_saved(t) /\ UNCHANGED caller_vars
        \/ stop_campaign(t) /\ UNCHANGED caller_vars
        \/ stop_campaign_saved(t) /\ UNCHANGED caller_vars
        \/ run_daily_cycle(t) /\ UNCHANGED caller_vars
        \/ run_daily_cycle_researched(t) /\ UNCHANGED caller_vars
        \/ run_daily_cycle_saved(t) /\ UNCHANGED caller_vars
        \/ connect_crm(t) /\ UNCHANGED caller_vars
        \/ connect_crm_authenticated(t) /\ UNCHANGED caller_vars
        \/ disconnect(t) /\ UNCHANGED caller_vars
        \/ get_campaign_status(t) /\ UNCHANGED <<leads, qcall, insights>>

\* any number of tasks call into the orchestrator and interleave at awaits
Spec == Init /\ [][Next]_vars

\* every call is awaited to its end before the next call is made
NextSeq ==
    \E t \in Tasks :
        \/ OthersIdle(t) /\ \E c \in CampaignIds : start_campaign(t, c)
              /\ UNCHANGED caller_vars
        \/ OthersIdle(t) /\ start_campaign_saved(t)
              /\ UNCHANGED caller_vars
        \/ OthersIdle(t) /\ pause_campaign(t)
              /\ UNCHANGED caller_vars
        \/ OthersIdle(t) /\ pause_campaign_saved(t)
              /\ UNCHANGED caller_vars
        \/ OthersIdle(t) /\ resume_campaign(t)
              /\ UNCHANGED caller_vars
        \/ OthersIdle(t) /\ resume_campaign_saved(t)
              /\ UNCHANGED caller_vars
        \/ OthersIdle(t) /\ stop_campaign(t)
              /\ UNCHANGED caller_vars
        \/ OthersIdle(t) /\ stop_campaign_saved(t)
              /\ UNCHANGED caller_vars
        \/ OthersIdle(t) /\ run_daily_cycle(t)
              /\ UNCHANGED caller_vars
        \/ OthersIdle(t) /\ run_daily_cycle_researched(t)
              /\ UNCHANGED caller_vars
        \/ OthersIdle(t) /\ run_daily_cycle_saved(t)
              /\ UNCHANGED caller_vars
        \/ OthersIdle(t) /\ connect_crm(t)
              /\ UNCHANGED caller_vars
        \/ OthersIdle(t) /\ connect_crm_authenticated(t)
              /\ UNCHANGED caller_vars
        \/ OthersIdle(t) /\ disconnect(t)
              /\ UNCHANGED caller_vars
        \/ OthersIdle(t) /\ get_campaign_status(t)
              /\ UNCHANGED <<leads, qcall, insights>>

SpecSeq == Init /\ [][NextSeq]_vars

(* ----------------------- calls on the LeadQualifier -------------------- *)

orchestrator_vars ==
    <<config, is_running, campaign_metrics, state_files, report_files,
      current_crm, auth_token, analytics_vars, pc, ret, qualified_leads,
      state_data, final_report, stopped, campaigns, committed, calls, before,
      campaign_status>>

\* LeadGenerationConfig as its defaults give it (lead_generator.py 35-37)
DefaultConfig ==
    [email_sequence_enabled |-> TRUE,
     crm_integration        |-> FALSE,
     analytics_enabled      |-> TRUE]

\* component scores _score_lead weighs: values over the whole of [0, 1], of
\* which the scorers of lines 235-373 produce some
ComponentValues == {0, 90, 100}

\* overall scores _determine_qualification_level is called with: the
\* thresholds, their neighbours and points inside every band
LevelInputs ==
    {0, 3000, 5499, 5500, 6000, 6999, 7000, 7500, 8499, 8500, 9000, 10000}

\* a lead as qualify_leads is written to build it: a Warm or Hot score with
\* the level of that score
WarmOrHotScores == {7000, 7500, 8000, 9000, 10000}

PreviouslyQualified ==
    {QualifiedLead(LeadScore(x, determine_qualification_level(x), <<>>), 0) :
        x \in WarmOrHotScores}

\* the lists of previously qualified leads a caller can hold: sorted and
\* ranked
QualifiedLists ==
    {sort_and_rank(l) :
        l \in UNION {[1..k -> PreviouslyQualified] : k \in 0..MaxLeads}}

\* the scoring functions keep no state between calls: a behaviour is one
\* call, or calls of _determine_qualification_level one after another
NotCalled == qcall = NoCall

\* _score_lead(prospect): raises or returns a LeadScore
call_score_lead ==
    /\ NotCalled
    /\ \E component_scores \in [Criteria -> ComponentValues],
          company_size \in {30, 600} :
          LET prospect == ProspectData(company_size, component_scores) IN
          qcall' = [op             |-> "_score_lead",
                    prospect       |-> prospect,
                    overall_score  |-> overall_score(prospect),
                    raised         |-> score_lead(prospect) = TypeError,
                    result         |-> score_lead(prospect)]
    /\ UNCHANGED <<leads, insights>>
    /\ UNCHANGED orchestrator_vars

\* _determine_qualification_level(overall_score)
call_determine_qualification_level ==
    /\ NotCalled \/ qcall.op = "_determine_qualification_level"
    /\ \E score \in LevelInputs :
          qcall' = [op            |-> "_determine_qualification_level",
                    overall_score |-> score,
                    raised        |-> FALSE,
                    result        |-> determine_qualification_level(score)]
    /\ UNCHANGED <<leads, insights>>
    /\ UNCHANGED orchestrator_vars

\* qualify_leads(prospects): no await in it suspends, the call is one
\* step; what a prospect raises is caught inside the loop (lines 177-179)
call_qualify_leads ==
    /\ \E prospects \in ProspectLists(MaxLeads) :
          qcall' = [op        |-> "qualify_leads",
                    prospects |-> prospects,
                    raised    |-> FALSE,
                    result    |-> qualify_leads(prospects)]
    /\ UNCHANGED <<leads, insights>>
    /\ UNCHANGED orchestrator_vars

\* re_score_leads(leads): the lead objects are changed in place and come
\* back in the returned list, which the caller goes on with
call_re_score_leads ==
    /\ leads' = re_score_leads(leads)
    /\ qcall' = [op        |-> "re_score_leads",
                 lead_list |-> leads,
                 raised    |-> FALSE,
                 result    |-> leads']
    /\ UNCHANGED insights
    /\ UNCHANGED orchestrator_vars

\* a scorer called with prospect_data returns score
ScorerCall(op, prospect_data, score) ==
    /\ NotCalled
    /\ qcall' = [op       |-> op,
                 prospect |-> prospect_data,
                 raised   |-> FALSE,
                 result   |-> score]
    /\ UNCHANGED <<leads, insights>>
    /\ UNCHANGED orchestrator_vars

call_score_company_fit ==
    \E p \in [industry : Industries, company_size : CompanySizes,
               location : Locations] :
        ScorerCall("_score_company_fit", p, score_company_fit(p))

call_score_budget_alignment ==
    \E p \in [revenue_range : RevenueRanges] :
        ScorerCall("_score_budget_alignment", p, score_budget_alignment(p))

call_score_authority_level ==
    \E p \in [key_contacts : ContactLists] :
        ScorerCall("_score_authority_level", p, score_authority_level(p))

call_score_need_intensity ==
    \E p \in [recent_news : NewsLists, company_size : CompanySizes,
               technologies : TechnologyCounts] :
        ScorerCall("_score_need_intensity", p, score_need_intensity(p))

call_score_timing_urgency ==
    \E p \in [company_size : CompanySizes, recent_news : NewsLists] :
        ScorerCall("_score_timing_urgency", p, score_timing_urgency(p))

call_score_engagement_potential ==
    \E p \in [social_profiles : SocialProfileCounts, website : Websites,
               description : DescriptionLengths] :
        ScorerCall("_score_engagement_potential", p,
                   score_engagement_potential(p))

\* _identify_disqualifying_factors as _score_lead calls it (line 223): with
\* the component scores the scorers gave for the same prospect_data
call_identify_disqualifying_factors ==
    /\ NotCalled
    /\ \E p \in [industry : Industries, company_size : CompanySizes,
                  location : Locations, revenue_range : RevenueRanges,
                  key_contacts : ContactLists] :
          LET component_scores ==
                  [company_fit      |-> score_company_fit(p),
                   budget_alignment |-> score_budget_alignment(p),
                   authority_level  |-> score_authority_level(p)]
          IN  qcall' = [op               |-> "_identify_disqualifying_factors",
                        prospect         |-> p,
                        component_scores |-> component_scores,
                        raised           |-> FALSE,
                        result           |->
                            identify_disqualifying_factors(component_scores,
                                                           p)]
    /\ UNCHANGED <<leads, insights>>
    /\ UNCHANGED orchestrator_vars

\* scoring one prospect, grading one score
InitScoring ==
    /\ config = DefaultConfig
    /\ Constructed
    /\ leads = <<>>
    /\ qcall = NoCall
    /\ insights = NoCall
    /\ campaign_status = NoCall

NextScoring ==
    \/ call_score_lead
    \/ call_determine_qualification_level
    \/ call_score_company_fit
    \/ call_score_budget_alignment
    \/ call_score_authority_level
    \/ call_score_need_intensity
    \/ call_score_timing_urgency
    \/ call_score_engagement_potential
    \/ call_identify_disqualifying_factors

SpecScoring == InitScoring /\ [][NextScoring]_vars

\* qualifying lists of prospects, re-scoring lists of qualified leads
InitQualifier ==
    /\ config = DefaultConfig
    /\ Constructed
    /\ leads \in QualifiedLists
    /\ qcall = NoCall
    /\ insights = NoCall
    /\ campaign_status = NoCall

NextQualifier ==
    \/ call_qualify_leads
    \/ call_re_score_leads

SpecQualifier == InitQualifier /\ [][NextQualifier]_vars

(* --------------------- calls on the AnalyticsTracker ------------------- *)

\* what update_metrics is handed: an object with the five counters
MetricsInputs ==
    [prospects_researched : {0, 1, 5},
     leads_qualified      : 0..1,
     emails_sent          : 0..1,
     responses_received   : 0..1,
     meetings_booked      : 0..1]

\* analytics_tracker.py 137-184: update_metrics(campaign_metrics), which
\* does not suspend (_save_metrics writes with the blocking open)
call_update_metrics ==
    /\ calls < MaxCalls
    /\ calls' = calls + 1
    /\ \E m \in MetricsInputs :
          /\ current_metrics' = update_metrics(current_metrics, m)
          /\ daily_metrics' = update_daily_metrics(daily_metrics, m)
          /\ historical_data' = append_historical_data(historical_data, m)
    /\ UNCHANGED <<config, is_running, campaign_metrics, state_files,
                   report_files, current_crm, auth_token, pc, ret,
                   qualified_leads, state_data, final_report, stopped, campaigns,
                   committed, before>>
    /\ UNCHANGED caller_vars

\* analytics_tracker.py 256-335: generate_predictive_insights(), which has
\* no await in it
call_generate_predictive_insights ==
    /\ calls < MaxCalls
    /\ calls' = calls + 1
    /\ insights' = [op          |-> "generate_predictive_insights",
                    data_points |-> Len(historical_data),
                    result      |-> generate_predictive_insights(
                                        historical_data, current_metrics)]
    /\ UNCHANGED <<config, is_running, campaign_metrics, state_files,
                   report_files, current_crm, auth_token, analytics_vars, pc,
                   ret, qualified_leads, state_data, final_report, stopped, campaigns,
                   committed, before, leads, qcall, campaign_status>>

\* what analytics_history.json holds from an earlier run
StoredHistories == {<<0, 0, 0, 5, 5, 5>>}

\* analytics_tracker.py 519-528: the task __init__ creates (line 135) reads
\* analytics_history.json, if there is one, into historical_data
load_historical_data ==
    /\ calls = 0
    /\ historical_data = <<>>
    /\ historical_data' \in StoredHistories
    /\ UNCHANGED <<config, is_running, campaign_metrics, state_files,
                   report_files, current_crm, auth_token, current_metrics,
                   daily_metrics, pc, ret, qualified_leads, state_data,
                   final_report, stopped, campaigns, committed, calls, before>>
    /\ UNCHANGED caller_vars

InitAnalytics ==
    /\ config = DefaultConfig
    /\ Constructed
    /\ leads = <<>>
    /\ qcall = NoCall
    /\ insights = NoCall
    /\ campaign_status = NoCall

NextAnalytics ==
    \/ load_historical_data
    \/ call_update_metrics
    \/ call_generate_predictive_insights

SpecAnalytics == InitAnalytics /\ [][NextAnalytics]_vars

(* ------------------------- observing the model ------------------------ *)

\* the lifecycle state of section 4.4 read off the two fields the code keeps
Status ==
    IF campaign_metrics # None
    THEN IF is_running THEN "Running" ELSE "Paused"
    ELSE IF is_running THEN "RunningWithoutCampaign"
    ELSE IF stopped THEN "Stopped"
    ELSE "Idle"

CycleLabels == {"cycle_research", "cycle_email", "cycle_crm", "cycle_save"}

\* task t has a run_daily_cycle in flight
InCycle(t) == pc[t] \in CycleLabels

\* this step is a call of op by the idle task t: the call either suspends at
\* its first await, or it returns or raises at once (no task changes place)
Called(t, op, first) ==
    /\ pc[t] = "idle"
    /\ calls' = calls + 1
    /\ \/ pc'[t] = first
       \/ pc' = pc /\ ret'.op = op

\* this step is the end of task t's call of an operation suspended at label
Returned(t, label) == pc[t] = label /\ pc'[t] = "idle"

\* the float r is the quotient n / d, or 0 when d is 0
RatioEquals(r, n, d) ==
    /\ r[2] # 0
    /\ IF d = 0 THEN r[1] = 0 ELSE r[1] * d = n * r[2]

\* no call is in flight: the state a caller observes between operations
BetweenOperations == \A t \in Tasks : pc[t] = "idle"

\* QualificationLevel from the lowest to the highest
LevelRank == [cold |-> 0, cool |-> 1, warm |-> 2, hot |-> 3]

\* the list is in descending order of overall_score
Descending(list) ==
    \A i \in 1..Len(list) : \A j \in i..Len(list) :
        list[i].lead_score.overall_score >= list[j].lead_score.overall_score

\* the list numbers its leads 1, 2, ... in list order
RankedInOrder(list) ==
    \A i \in 1..Len(list) : list[i].priority_rank = i

\* the prospects of the list qualify_leads is written to keep
WarmOrHot(prospects) ==
    SelectSeq(prospects,
              LAMBDA p : determine_qualification_level(overall_score(p))
                            \in {"hot", "warm"})

Counters == {"prospects_researched", "leads_qualified", "emails_sent",
             "responses_received", "meetings_booked"}

(* ------------------------------- claims ------------------------------- *)

\* C1: run_daily_cycle is accepted only in state Running.  Called in any
\* other state (never started, paused, stopped) it raises "No active
\* campaign" and changes nothing; called in Running it goes on to the
\* research stage, and when it returns normally the campaign is still Running.
C1_CycleOnlyWhenRunning ==
    [][\A t \in Tasks :
          /\ Called(t, "run_daily_cycle", "cycle_research") =>
                IF Status = "Running"
                THEN pc'[t] = "cycle_research"
                ELSE /\ ret' = Call("run_daily_cycle", "no_active_campaign")
                     /\ pc'[t] = "idle"
                     /\ UNCHANGED <<is_running, campaign_metrics, state_files,
                                    report_files, current_metrics>>
          /\ (InCycle(t) /\ pc'[t] = "idle" /\ ret'.result = "ok") =>
                /\ ret'.op = "run_daily_cycle"
                /\ Status' = "Running"
    ]_vars

\* C1 witness: a cycle was refused on a stopped orchestrator
C1_Witness ==
    /\ Status = "Stopped"
    /\ ret = Call("run_daily_cycle", "no_active_campaign")

\* C2: Stopped is terminal: once a stop_campaign has taken effect, no call
\* of start_campaign, pause_campaign, resume_campaign or stop_campaign leaves
\* the Stopped state.
C2_StoppedIsTerminal ==
    [][Status = "Stopped" => Status' = "Stopped"]_vars

\* C3: start_campaign succeeds only from Idle.  Called while a campaign is
\* Running or Paused it raises "already running" and leaves status, campaign
\* id and counters as they are; from Idle it creates fresh metrics, sets
\* Running and goes on to persist the state.
C3_StartOnlyFromIdle ==
    [][\A t \in Tasks :
          Called(t, "start_campaign", "start_save") =>
             /\ Status \in {"Running", "Paused"} =>
                   /\ ret' = Call("start_campaign", "already_running")
                   /\ UNCHANGED <<is_running, campaign_metrics>>
             /\ Status = "Idle" =>
                   /\ pc'[t] = "start_save"
                   /\ is_running'
                   /\ \E c \in CampaignIds :
                         /\ campaign_metrics' = CampaignMetrics(c)
                         /\ state_data'[t] = StateData(CampaignMetrics(c), TRUE)
    ]_vars

\* C4: pause_campaign on a campaign that is not running and resume_campaign
\* on a running one are no-ops: status, metrics and both files unchanged and
\* no write pending.  pause_campaign on Running moves to Paused and
\* resume_campaign on Paused moves to Running; each then issues exactly one
\* state write, which (when the write succeeds) records the new status with
\* the metrics as they were at the transition.
C4_PauseResume ==
    [][\A t \in Tasks :
          /\ Called(t, "pause_campaign", "pause_save") =>
                IF Status = "Running"
                THEN /\ Status' = "Paused"
                     /\ campaign_metrics' = campaign_metrics
                     /\ pc'[t] = "pause_save"
                     /\ state_data'[t] = StateData(campaign_metrics, FALSE)
                     /\ UNCHANGED <<state_files, report_files>>
                ELSE /\ ~is_running =>
                        /\ pc'[t] = "idle"
                        /\ ret' = Call("pause_campaign", "ok")
                        /\ UNCHANGED <<is_running, campaign_metrics,
                                       state_files, report_files>>
          /\ Called(t, "resume_campaign", "resume_save") =>
                IF Status = "Paused"
                THEN /\ Status' = "Running"
                     /\ campaign_metrics' = campaign_metrics
                     /\ pc'[t] = "resume_save"
                     /\ state_data'[t] = StateData(campaign_metrics, TRUE)
                     /\ UNCHANGED <<state_files, report_files>>
                ELSE /\ is_running =>
                        /\ pc'[t] = "idle"
                        /\ ret' = Call("resume_campaign", "ok")
                        /\ UNCHANGED <<is_running, campaign_metrics,
                                       state_files, report_files>>
          /\ \A label \in {"pause_save", "resume_save"} :
                (pc[t] = label /\ pc'[t] # label) =>
                   \* the one write: the call ends with it
                   /\ pc'[t] = "idle"
                   /\ UNCHANGED <<is_running, campaign_metrics, report_files>>
                   /\ LET c == state_data[t].campaign_metrics.campaign_id IN
                      IF ret'.result = "ok"
                      THEN state_files' =
                              [state_files EXCEPT ![c] =
                                  StateData(state_data[t].campaign_metrics,
                                            label = "resume_save")]
                      ELSE UNCHANGED state_files
    ]_vars

\* C4 witness: a pause of a running campaign has been written to its state file
C4_Witness ==
    /\ ret = Call("pause_campaign", "ok")
    /\ Status = "Paused"
    /\ state_files[campaign_metrics.campaign_id] =
          StateData(campaign_metrics, FALSE)
    /\ campaign_metrics.prospects_researched > 0

\* C5: stop_campaign called in Running or in Paused moves the campaign to
\* Stopped and produces the final report of that campaign; called in any
\* other state it is a no-op.
C5_StopFromRunningOrPaused ==
    [][\A t \in Tasks :
          Called(t, "stop_campaign", "stop_save") =>
             IF Status \in {"Running", "Paused"}
             THEN /\ pc'[t] = "stop_save"
                  /\ ~is_running'
                  /\ final_report'[t] = generate_final_report(campaign_metrics)
             ELSE Status \in {"Idle", "Stopped"} =>
                  /\ ret' = Call("stop_campaign", "ok")
                  /\ UNCHANGED <<is_running, campaign_metrics, state_files,
                                 report_files>>
    ]_vars

\* C6: when stop_campaign completes, the persisted state record of that
\* campaign shows it as not running, with the final metrics.
C6_StopPersistsState ==
    [][\A t \in Tasks :
          (Returned(t, "stop_save") /\ ret'.result = "ok") =>
             state_files'[final_report[t].campaign_id] =
                StateData(final_report[t].final_metrics, FALSE)
    ]_vars

\* C7: when a stage of run_daily_cycle fails, the call raises, the counters
\* the earlier stages of that cycle incremented keep their increments (the
\* metrics stay those the stages produced, none below its value at the start
\* of the cycle), and the campaign is still Running.
C7_NoRollbackOnFailure ==
    [][\A t \in Tasks :
          (InCycle(t) /\ pc'[t] = "idle" /\ ret'.result # "ok") =>
             /\ ret' = Call("run_daily_cycle", "OSError")
             /\ Status = "Running" /\ Status' = "Running"
             /\ campaign_metrics' = state_data[t].campaign_metrics
             /\ campaign_metrics'.campaign_id = committed.campaign_id
             /\ \A f \in Counters : campaign_metrics'[f] >= committed[f]
    ]_vars

\* C7 witness: a cycle failed at its last stage and the campaign, still
\* Running, holds the prospects that cycle researched
C7_Witness ==
    /\ ret = Call("run_daily_cycle", "OSError")
    /\ Status = "Running"
    /\ campaign_metrics.prospects_researched > committed.prospects_researched

\* C8: at most one run_daily_cycle is in flight at a time.
C8_OneCycleAtATime ==
    Cardinality({t \in Tasks : InCycle(t)}) <= 1

\* C9: a stop_campaign requested while a cycle is in flight takes effect only
\* after that cycle has ended: while a cycle is in flight no stop_campaign is
\* under way and the campaign's metrics are in place.
C9_StopWaitsForCycle ==
    \A t \in Tasks :
        InCycle(t) =>
           /\ campaign_metrics # None
           /\ \A u \in Tasks : pc[u] # "stop_save"

\* C10: every write of a campaign-state record writes the metrics the
\* campaign had at its start or at the end of its last cycle that completed.
C10_OnlyCommittedMetricsPersisted ==
    [][\A c \in CampaignIds :
          state_files'[c] # state_files[c] =>
             state_files'[c].campaign_metrics = committed'
    ]_vars

\* C11: when the state write of start_campaign, pause_campaign,
\* resume_campaign or run_daily_cycle fails, the call raises the error and
\* is_running and the campaign metrics are afterwards what they were before
\* the call.
C11_FailedWriteCommitsNothing ==
    [][\A t \in Tasks :
          \A label \in {"start_save", "pause_save", "resume_save",
                        "cycle_save"} :
             (Returned(t, label) /\ ret'.result # "ok") =>
                /\ ret'.result = "OSError"
                /\ is_running' = before.is_running
                /\ campaign_metrics' = before.campaign_metrics
    ]_vars

\* C12: within one run_daily_cycle the stages run in the order research,
\* qualify, outreach (if enabled), CRM sync (if enabled), analytics update,
\* state persistence, each after the one before it has completed.  Nothing
\* is counted, aggregated or written before research has returned; the
\* qualify stage works on the prospects research returned; outreach and CRM
\* sync are entered only with the leads that stage qualified; the analytics
\* update sees the counters of research and qualify; the state record is
\* built after the analytics update and the conversion rate, and its write
\* is the last thing the cycle does.
C12_StagesInOrder ==
    [][\A t \in Tasks :
          /\ (Called(t, "run_daily_cycle", "cycle_research")
                 /\ pc'[t] = "cycle_research") =>
                UNCHANGED <<campaign_metrics, current_metrics, state_files,
                            state_data>>
          /\ (pc[t] = "cycle_research" /\ pc'[t] # "cycle_research") =>
                \E prospects \in ProspectLists(MaxProspects) :
                   LET found == qualify_leads(prospects)
                       m == [campaign_metrics EXCEPT
                                !.prospects_researched = @ + Len(prospects),
                                !.leads_qualified = @ + Len(found)]
                   IN IF config.email_sequence_enabled /\ found # <<>>
                      THEN /\ pc'[t] = "cycle_email"
                           /\ qualified_leads'[t] = Len(found)
                           /\ campaign_metrics' = m
                           /\ UNCHANGED <<current_metrics, state_files>>
                      ELSE IF config.crm_integration /\ found # <<>>
                      THEN /\ pc'[t] \in {"cycle_crm", "idle"}
                           /\ campaign_metrics' = m
                           /\ UNCHANGED <<current_metrics, state_files>>
                      ELSE /\ pc'[t] = "cycle_save"
                           /\ current_metrics' =
                                 IF config.analytics_enabled
                                 THEN update_metrics(current_metrics, m)
                                 ELSE current_metrics
                           /\ campaign_metrics' = update_conversion_rate(m)
                           /\ state_data'[t] =
                                 StateData(campaign_metrics', is_running)
                           /\ UNCHANGED state_files
          /\ (pc[t] = "cycle_save" /\ pc'[t] # "cycle_save") =>
                /\ pc'[t] = "idle"
                /\ ret'.op = "run_daily_cycle"
                /\ UNCHANGED <<campaign_metrics, current_metrics>>
                /\ ret'.result = "ok" =>
                      state_files'[campaign_metrics.campaign_id] = state_data[t]
    ]_vars

\* C12 witness: a cycle that researched a prospect has run all its stages:
\* the aggregator and the state file both hold that prospect
C12_Witness ==
    /\ ret = Call("run_daily_cycle", "ok")
    /\ campaign_metrics # None
    /\ campaign_metrics.prospects_researched > 0
    /\ current_metrics.total_prospects_researched > 0
    /\ state_files[campaign_metrics.campaign_id] =
          StateData(campaign_metrics, TRUE)

\* C13: in every state observable between operations of a started
\* campaign, conversion_rate is leads_qualified / prospects_researched, and
\* 0 when prospects_researched is 0, after cycles that succeeded and after
\* cycles that failed.
C13_ConversionRateDerived ==
    (BetweenOperations /\ campaign_metrics # None) =>
        RatioEquals(campaign_metrics.conversion_rate,
                    campaign_metrics.leads_qualified,
                    campaign_metrics.prospects_researched)

\* C13 witness: a cycle that researched a prospect has failed, and the rate
\* is the quotient of the counters it left
C13_Witness ==
    /\ BetweenOperations
    /\ ret = Call("run_daily_cycle", "OSError")
    /\ campaign_metrics # None
    /\ campaign_metrics.prospects_researched > 0
    /\ campaign_metrics.conversion_rate =
          Ratio(campaign_metrics.leads_qualified,
                campaign_metrics.prospects_researched)

\* C14: the six scoring weights sum to exactly 1.0, and for every
\* assignment of the six component scores, each in [0, 1], the weighted
\* overall score lies in [0, 1].
C14_WeightsAndScoreRange ==
    /\ SumOver(scoring_weights, Criteria) = 100
    /\ (qcall.op = "_score_lead"
           /\ \A c \in Criteria : qcall.prospect[c] \in 0..100) =>
          /\ qcall.overall_score >= 0
          /\ qcall.overall_score <= 10000

\* C14 witness: a prospect with every component at 1.0 was scored 1.0
C14_Witness ==
    /\ qcall.op = "_score_lead"
    /\ \A c \in Criteria : qcall.prospect[c] = 100
    /\ qcall.overall_score = 10000

\* C15: _determine_qualification_level tests the thresholds from the top
\* (>= 0.85 Hot, >= 0.70 Warm, >= 0.55 Cool, else Cold) and never gives a
\* higher score a lower level: of two calls, the one with the higher score
\* gets at least the level of the other; 0.30, 0.60, 0.75 and 0.90 give
\* Cold, Cool, Warm and Hot.
C15_LevelMonotone ==
    [][qcall'.op = "_determine_qualification_level" =>
          LET score == qcall'.overall_score
              level == qcall'.result
          IN /\ level = "hot"  <=> score >= 8500
             /\ level = "warm" <=> (score >= 7000 /\ score < 8500)
             /\ level = "cool" <=> (score >= 5500 /\ score < 7000)
             /\ level = "cold" <=> score < 5500
             /\ score = 3000 => level = "cold"
             /\ score = 6000 => level = "cool"
             /\ score = 7500 => level = "warm"
             /\ score = 9000 => level = "hot"
             /\ qcall.op = "_determine_qualification_level" =>
                   /\ qcall.overall_score <= score =>
                         LevelRank[qcall.result] <= LevelRank[level]
                   /\ qcall.overall_score >= score =>
                         LevelRank[qcall.result] >= LevelRank[level]
    ]_vars

\* C15 witness: 0.75 was graded Warm
C15_Witness ==
    /\ qcall.op = "_determine_qualification_level"
    /\ qcall.overall_score = 7500
    /\ qcall.result = "warm"

C18_NoQualifiedLeadDropped ==
    qcall.op = "qualify_leads" =>
        LET expected == WarmOrHot(qcall.prospects) IN
        /\ Len(qcall.result) = Len(expected)
        /\ \A i \in 1..Len(expected) :
              \E j \in 1..Len(qcall.result) :
                 qcall.result[j].lead_score.overall_score
                    = overall_score(expected[i])
        /\ qcall.prospects = <<HotProspect>> =>
              qcall.result =
                 <<QualifiedLead(LeadScore(overall_score(HotProspect), "hot",
                                           <<>>),
                                 1)>>

\* C19: re_score_leads applied to leads whose data has not changed returns
\* every lead with the overall_score and the qualification level it had, in
\* the order it had: one call, and so any number of calls, changes nothing.
C19_ReScoreNoDrift ==
    [][qcall'.op = "re_score_leads" => leads' = leads]_vars

\* C20: the aggregator's qualification_rate, response_rate and
\* conversion_rate are each 0 whenever their denominator (prospects
\* researched, emails sent, prospects qualified) is 0, and no rate is ever
\* the result of a division by zero, in every state update_metrics calls
\* reach.
C20_ZeroDenominatorRates ==
    /\ RatioEquals(current_metrics.qualification_rate,
                   current_metrics.prospects_qualified,
                   current_metrics.total_prospects_researched)
    /\ RatioEquals(current_metrics.response_rate,
                   current_metrics.email_responses,
                   current_metrics.emails_sent)
    /\ RatioEquals(current_metrics.conversion_rate,
                   current_metrics.meetings_booked,
                   current_metrics.prospects_qualified)

\* C20 witness: update_metrics has counted qualified prospects and meetings
\* while no prospect was researched and no email sent
C20_Witness ==
    /\ calls > 0
    /\ current_metrics.total_prospects_researched = 0
    /\ current_metrics.emails_sent = 0
    /\ current_metrics.prospects_qualified > 0
    /\ current_metrics.meetings_booked > 0
    /\ current_metrics.qualification_rate = Zero
    /\ current_metrics.response_rate = Zero

\* C21: generate_predictive_insights with fewer than 3 data points in its
\* window (0, 1 or 2 recorded points) returns trend 'stable' with a
\* confidence level strictly lower than the confidence it returns when the
\* window holds 3 or more points.
C21_FewPointsLowerConfidence ==
    (insights.op = "generate_predictive_insights"
        /\ insights.data_points < TrendPoints)
    => /\ insights.result.trend_direction = "stable"
       /\ insights.result.confidence_level < ModelConfidence

\* C23: get_campaign_status reports status 'running' together with the
\* campaign id while a started campaign is running, and after stop_campaign
\* has been called on that campaign it reports status 'paused'.
C23_StatusRunningThenPaused ==
    campaign_status.op = "get_campaign_status" =>
       /\ (campaign_status.is_running
              /\ campaign_status.campaign_metrics # None)
          => /\ campaign_status.result.status = "running"
             /\ campaign_status.result.campaign_id =
                    campaign_status.campaign_metrics.campaign_id
       /\ (campaign_status.previous = Call("stop_campaign", "ok")
              /\ campaign_status.stopped)
          => campaign_status.result.status = "paused"

ScorerOps ==
    {"_score_company_fit", "_score_budget_alignment", "_score_authority_level",
     "_score_need_intensity", "_score_timing_urgency",
     "_score_engagement_potential"}

\* C24: for every prospect record, each of the six component scores the
\* scorers compute (company fit, budget alignment, authority level, need
\* intensity, timing urgency, engagement potential) lies in [0, 1].
C24_ComponentScoresInUnitInterval ==
    qcall.op \in ScorerOps =>
        /\ qcall.result[2] > 0
        /\ 0 <= qcall.result[1]
        /\ qcall.result[1] <= qcall.result[2]

\* a prospect whose need indicators add up to 1.1 was scored 1.0
C24_Witness ==
    /\ qcall.op = "_score_need_intensity"
    /\ Mentions(qcall.prospect.recent_news, need_keywords)
    /\ qcall.prospect.company_size > 200
    /\ qcall.prospect.technologies > 5
    /\ qcall.result = Ratio(10, 10)

\* C25: the aggregator is fed per-cycle totals: after any number n >= 1 of
\* successful cycles of one campaign, the aggregator's cumulative
\* total_prospects_researched, prospects_qualified and emails_sent equal the
\* campaign's cumulative prospects_researched, leads_qualified and
\* emails_sent, and so do those of the current day's bucket.
C25_AggregatorMatchesCampaign ==
    (/\ config.analytics_enabled
     /\ campaigns = 1
     /\ campaign_metrics # None
     /\ ret = Call("run_daily_cycle", "ok")
     /\ \A t \in Tasks : pc[t] = "idle")
    => /\ current_metrics.total_prospects_researched =
              campaign_metrics.prospects_researched
       /\ current_metrics.prospects_qualified = campaign_metrics.leads_qualified
       /\ current_metrics.emails_sent = campaign_metrics.emails_sent
       /\ daily_metrics.total_prospects_researched =
              campaign_metrics.prospects_researched
       /\ daily_metrics.prospects_qualified = campaign_metrics.leads_qualified
       /\ daily_metrics.emails_sent = campaign_metrics.emails_sent

\* C26: every lead returned by re_score_leads is still a qualified lead: its
\* new qualification level is Warm or Hot (a lead whose re-computed score
\* falls below 0.70 is not returned), after one or after any number of
\* successive re_score_leads calls.
C26_ReScoredStillQualified ==
    qcall.op = "re_score_leads" =>
        \A i \in 1..Len(qcall.result) :
            /\ qcall.result[i].lead_score.overall_score
                   >= qualification_thresholds.warm
            /\ qcall.result[i].lead_score.qualification_level
                   \in {"hot", "warm"}

\* C27: in every reachable state of the orchestrator is_running = True
\* implies that a campaign exists (campaign_metrics is set): resume_campaign
\* on a never-started or already stopped orchestrator does not make it
\* running, and stop_campaign never runs against a missing campaign.
C27_RunningImpliesCampaign ==
    /\ is_running => campaign_metrics # None
    /\ ret # Call("stop_campaign", "AttributeError")

C30_OnlyFitAndSizeFactors ==
    /\ qcall.op = "_score_budget_alignment" => ~RatioBelow(qcall.result, 300)
    /\ qcall.op = "_score_authority_level" => ~RatioBelow(qcall.result, 200)
    /\ qcall.op = "_identify_disqualifying_factors" =>
          \A i \in 1..Len(qcall.result) :
              qcall.result[i] \in {"Company profile doesn't match",
                                   "Company size below minimum threshold"}

\* the factors of a small company outside the target industry and region,
\* with the lowest revenue range and no contact: fit and size, nothing else
C30_Witness ==
    /\ qcall.op = "_identify_disqualifying_factors"
    /\ qcall.prospect.revenue_range = "$1M-$5M"
    /\ qcall.prospect.key_contacts = <<>>
    /\ qcall.component_scores.budget_alignment = Ratio(3, 10)
    /\ qcall.component_scores.authority_level = Ratio(2, 10)
    /\ qcall.result = <<"Company profile doesn't match",
                        "Company size below minimum threshold">>

====
